---- MODULE Spec2Model ----
(***************************************************************************)
(* State-machine model of quizgen-ai: the App component (quiz library,     *)
(* generation, start/complete/delete) and the QuizView component (question *)
(* navigation, answers, auto-advance timers, scoring, review).             *)
(*                                                                         *)
(* Strings are sequences of one-character strings so that toLowerCase()    *)
(* and trim() are computed, not assumed; extracted document texts are      *)
(* sequences of runs of a character.                                       *)
(***************************************************************************)
EXTENDS Integers, Sequences, FiniteSets, TLC

VARIABLES
    appState,              \* App: 'DASHBOARD' | 'TAKING_QUIZ'
    quizzes,               \* App: the library, newest first
    currentQuiz,           \* App: quiz handed to QuizView (NoQuiz = null)
    previewQuiz,           \* App: quiz shown in the preview modal (NoQuiz = null)
    file,                  \* App: selected upload (NoFile = null)
    isProcessing,          \* App: generation in progress flag
    error,                 \* App: error message (NoError = null)
    pending,               \* handleGenerate calls suspended at an await
    clock,                 \* last value observed from Date.now()
    currentQuestionIndex,  \* QuizView state
    answers,               \* QuizView state: question id -> answer string
    showFeedback,          \* QuizView state
    isFinished,            \* QuizView state
    timers,                \* setTimeout callbacks not yet run, in expiry order
    crashed,               \* a render threw: React unmounted the tree
    attempts,              \* history: QuizAttempts passed to onComplete by this session
    lastScore,             \* history: library quiz id -> score of its latest completed attempt
    ev,                    \* history: the event handled by the last step
    storage,               \* localStorage item 'quizgen_quizzes'
    startup                \* App: where its mount is (effects, re-render, ready)

vars == <<appState, quizzes, currentQuiz, previewQuiz, file, isProcessing, error,
          pending, clock, currentQuestionIndex, answers, showFeedback, isFinished,
          timers, crashed, attempts, lastScore, ev, storage, startup>>

appVars  == <<appState, quizzes, currentQuiz, previewQuiz, file, isProcessing, error,
              pending, clock>>
viewVars == <<currentQuestionIndex, answers, showFeedback, isFinished>>

----------------------------------------------------------------------------
(* Bounds *)

\* Largest value Date.now() takes in the model; one quiz id per value.
MaxClock == 2
\* Largest number of scheduled, not yet run, setTimeout callbacks.
MaxTimers == 2

\* The longest question sequence of a saved quiz.
MaxQuestions == 4

----------------------------------------------------------------------------
(* Strings *)

\* String.prototype.toLowerCase on one character of the model's alphabet.
LowerChar(c) ==
    CASE c = "A" -> "a"
      [] c = "B" -> "b"
      [] c = "N" -> "n"
      [] c = "O" -> "o"
      [] c = "S" -> "s"
      [] c = "W" -> "w"
      [] c = "E" -> "e"
      [] c = "R" -> "r"
      [] c = "T" -> "t"
      [] c = "F" -> "f"
      [] c = "P" -> "p"
      [] c = "D" -> "d"
      [] c = "X" -> "x"
      [] c = "L" -> "l"
      [] OTHER   -> c

ToLowerCase(s) == [i \in 1..Len(s) |-> LowerChar(s[i])]

IsWhiteSpace(c) == c \in {" ", "\n"}

RECURSIVE TrimStart(_)
TrimStart(s) ==
    IF s # <<>> /\ IsWhiteSpace(Head(s)) THEN TrimStart(Tail(s)) ELSE s

RECURSIVE TrimEnd(_)
TrimEnd(s) ==
    IF s # <<>> /\ IsWhiteSpace(s[Len(s)]) THEN TrimEnd(SubSeq(s, 1, Len(s) - 1)) ELSE s

\* String.prototype.trim
Trim(s) == TrimEnd(TrimStart(s))

\* The review screen's sentinel for a question without an answer.
NoAnswer == <<"N", "o", " ", "a", "n", "s", "w", "e", "r">>

StrTrue  == <<"T", "r", "u", "e">>
StrFalse == <<"F", "a", "l", "s", "e">>

----------------------------------------------------------------------------
(* Types *)

MULTIPLE_CHOICE == "MULTIPLE_CHOICE"
TRUE_FALSE      == "TRUE_FALSE"
SHORT_ANSWER    == "SHORT_ANSWER"

\* score?: number -- the field is absent until an attempt completes.
Unset == -1

\* currentQuiz and previewQuiz hold copies of a library quiz. Of a copy only id,
\* questions and totalQuestions are read by the handlers (its score is displayed
\* and nothing else), so the copies carry these three fields.
QuizCopy(quiz) ==
    [id |-> quiz.id, questions |-> quiz.questions, totalQuestions |-> quiz.totalQuestions]

NoQuiz  == [id |-> 0, questions |-> <<>>, totalQuestions |-> 0]
NoFile  == [name |-> <<>>, type |-> <<"null">>]
NoError == "null"

EmptyAnswers == [k \in {} |-> <<>>]

----------------------------------------------------------------------------
(* Files: a File has a name, a sequence of characters, and a declared media *)
(* type, written as its two parts ("image/" and "png"); the empty type is   *)
(* what a browser reports when it does not know the type.                   *)

PdfType  == <<"application/", "pdf">>
XlsxType == <<"application/", "vnd.openxmlformats-officedocument.spreadsheetml.sheet">>
XlsType  == <<"application/", "vnd.ms-excel">>
PngType  == <<"image/", "png">>
JpegType == <<"image/", "jpeg">>
WebpType == <<"image/", "webp">>
HeicType == <<"image/", "heic">>

DotPdf  == <<".", "p", "d", "f">>
DotXlsx == <<".", "x", "l", "s", "x">>
DotXls  == <<".", "x", "l", "s">>
DotPng  == <<".", "p", "n", "g">>
DotJpg  == <<".", "j", "p", "g">>
DotJpeg == <<".", "j", "p", "e", "g">>
DotWebp == <<".", "w", "e", "b", "p">>
DotHeic == <<".", "h", "e", "i", "c">>

\* String.prototype.startsWith and endsWith
StartsWith(s, prefix) == Len(s) >= Len(prefix) /\ SubSeq(s, 1, Len(prefix)) = prefix
EndsWith(s, suffix) ==
    Len(s) >= Len(suffix) /\ SubSeq(s, Len(s) - Len(suffix) + 1, Len(s)) = suffix

\* validateAndSelect: the two allow-lists and its test.
validTypes == {PdfType, XlsxType, XlsType, PngType, JpegType, WebpType, HeicType}
validExtensions == {DotPdf, DotXlsx, DotXls, DotPng, DotJpg, DotJpeg, DotWebp, DotHeic}
hasValidExtension(f) == \E ext \in validExtensions : EndsWith(ToLowerCase(f.name), ext)
Validates(f) == f.type \in validTypes \/ hasValidExtension(f)

\* parseFile: the branch it takes, or Unsupported when it throws.
Unsupported == "Unsupported"
ParseFilePath(f) ==
    IF f.type = PdfType THEN "parsePdf"
    ELSE IF \/ f.type = XlsxType
            \/ f.type = XlsType
            \/ EndsWith(f.name, DotXlsx)
            \/ EndsWith(f.name, DotXls)
         THEN "parseExcel"
         ELSE IF StartsWith(f.type, <<"image/">>) THEN "parseImage"
              ELSE Unsupported

ReadStages == {"parsePdf", "parseExcel", "parseImage"}

\* The message of the error parseFile throws for an unsupported file.
UnsupportedMessage == "Unsupported file type. Please upload a PDF, Excel, or Image file."

----------------------------------------------------------------------------
(* Document text. An extracted text is a sequence of runs [ch, n], n copies *)
(* of the character ch, so that texts of 100000 characters, their length,   *)
(* trim() and slice() are computed exactly.                                 *)

Run(c, n) == [ch |-> c, n |-> n]

\* The text of a sequence of characters.
Text(chars) == [i \in DOMAIN chars |-> Run(chars[i], 1)]

\* String.prototype.length
RECURSIVE TextLength(_)
TextLength(t) == IF t = <<>> THEN 0 ELSE Head(t).n + TextLength(Tail(t))

RECURSIVE TrimTextStart(_)
TrimTextStart(t) ==
    IF t # <<>> /\ IsWhiteSpace(Head(t).ch) THEN TrimTextStart(Tail(t)) ELSE t

RECURSIVE TrimTextEnd(_)
TrimTextEnd(t) ==
    IF t # <<>> /\ IsWhiteSpace(t[Len(t)].ch)
    THEN TrimTextEnd(SubSeq(t, 1, Len(t) - 1)) ELSE t

\* String.prototype.trim on a text
TrimText(t) == TrimTextEnd(TrimTextStart(t))

\* Faulty variant: slice(0, k - 1).
RECURSIVE SliceText_OneShort(_, _)
SliceText_OneShort(t, k) ==
    IF t = <<>> \/ k <= 1 THEN <<>>
    ELSE IF Head(t).n >= k - 1 THEN <<Run(Head(t).ch, k - 1)>>
         ELSE <<Head(t)>> \o SliceText_OneShort(Tail(t), k - Head(t).n)

\* String.prototype.slice(0, k)
RECURSIVE SliceText(_, _)
SliceText(t, k) ==
    IF t = <<>> \/ k <= 0 THEN <<>>
    ELSE IF Head(t).n >= k THEN <<Run(Head(t).ch, k)>>
         ELSE <<Head(t)>> \o SliceText(Tail(t), k - Head(t).n)

\* items.join(' ')
RECURSIVE JoinItems(_)
JoinItems(items) ==
    IF items = <<>> THEN <<>>
    ELSE IF Len(items) = 1 THEN items[1]
         ELSE items[1] \o Text(<<" ">>) \o JoinItems(Tail(items))

----------------------------------------------------------------------------
(* fileParser: the three extractors. The content of a file is what its      *)
(* bytes decode to: [kind, decodes, pages] for a PDF (a page is the         *)
(* sequence of its text items), [kind, decodes, sheets] for a workbook (a   *)
(* sheet has a name and the CSV sheet_to_csv gives), [kind, data] for an    *)
(* image.                                                                   *)

PdfEmptyMessage ==
    "PDF appears to be empty or contains only images. Try taking a screenshot or converting to image for OCR."
PdfCorruptMessage == "Failed to read PDF file. It might be corrupted or password protected."
ExcelEmptyMessage == "Excel file appears to be empty."
ExcelCorruptMessage == "Failed to parse Excel file."

Returns(text) == [ok |-> TRUE, content |-> text]
Throws(message) == [ok |-> FALSE, message |-> message]

\* `--- Page ${i} ---\n`
PageMarker(i) ==
    Text(<<"-", "-", "-", " ", "P", "a", "g", "e", " ">>)
    \o Text(<<(<<"0", "1", "2", "3", "4", "5", "6", "7", "8", "9">>)[i + 1]>>)
    \o Text(<<" ", "-", "-", "-", "\n">>)

\* parsePdf: the loop over the pages, fullText += marker, page text, "\n\n".
RECURSIVE PdfFullText(_, _, _)
PdfFullText(pages, i, fullText) ==
    IF i > Len(pages) THEN fullText
    ELSE PdfFullText(pages, i + 1,
                     fullText \o PageMarker(i) \o JoinItems(pages[i]) \o Text(<<"\n", "\n">>))

\* parsePdf: the body of its try block.
ParsePdfTry(content) ==
    IF content.kind # "pdf" \/ ~content.decodes THEN Throws("getDocument")
    ELSE LET fullText == PdfFullText(content.pages, 1, <<>>)
         IN IF TextLength(TrimText(fullText)) = 0 THEN Throws(PdfEmptyMessage)
            ELSE Returns(fullText)

\* parsePdf: whatever the try block throws, the catch block throws the
\* 'Failed to read PDF file' error instead.
ParsePdf(content) ==
    IF ParsePdfTry(content).ok THEN ParsePdfTry(content) ELSE Throws(PdfCorruptMessage)

\* `--- Excel Sheet: ${sheetName} ---\n`
SheetMarker(sheetName) == Text(<<"-", "-", "-", " ", "E", "x", "c", "e", "l", " ", "S", "h", "e", "e", "t", ":", " ">>) \o Text(sheetName) \o Text(<<" ", "-", "-", "-", "\n">>)

\* Faulty variant: the empty sheet is reported by throwing inside the try
\* block, so that the catch block rejects with the parse error.
ParseExcelCalls_EmptyThrows(content) ==
    IF content.kind # "sheet" \/ ~content.decodes THEN <<Throws(ExcelCorruptMessage)>>
    ELSE LET csv == content.sheets[1].csv
         IN IF csv = <<>> \/ TextLength(TrimText(csv)) = 0
            THEN <<Throws(ExcelCorruptMessage)>>
            ELSE <<Returns(SheetMarker(content.sheets[1].name) \o csv)>>

\* parseExcel: the calls reader.onload makes to reject and resolve, in order.
ParseExcelCalls(content) ==
    IF content.kind # "sheet" \/ ~content.decodes THEN <<Throws(ExcelCorruptMessage)>>
    ELSE LET csv == content.sheets[1].csv
         IN IF csv = <<>> \/ TextLength(TrimText(csv)) = 0
            THEN <<Throws(ExcelEmptyMessage)>>
            ELSE <<Returns(SheetMarker(content.sheets[1].name) \o csv)>>

\* A promise keeps the first of the calls that settle it.
Settled(calls) == Head(calls)

ParseExcel(content) == Settled(ParseExcelCalls(content))

\* parseFile on the branch it has taken: the ParsedContent or the error.
ParseOutcome(f, path) ==
    CASE path = "parsePdf" ->
             IF ParsePdf(f.content).ok
             THEN Returns([type |-> "text", content |-> ParsePdf(f.content).content])
             ELSE ParsePdf(f.content)
      [] path = "parseExcel" ->
             IF ParseExcel(f.content).ok
             THEN Returns([type |-> "text", content |-> ParseExcel(f.content).content])
             ELSE ParseExcel(f.content)
      [] OTHER ->
             Returns([type |-> "image",
                      inlineData |-> [mimeType |-> f.type, data |-> f.content.data]])

\* content.content.slice(0, 100000)
SliceLimit == 100000

\* generateQuizFromContent: the part it adds to the request for the content.
Handed(content) ==
    IF content.type = "text"
    THEN [label |-> "Document Content:\n", text |-> SliceText(content.content, SliceLimit)]
    ELSE [inlineData |-> content.inlineData]

----------------------------------------------------------------------------
(* What the generation service may return: the model draws the generated   *)
(* question sequence from this pool.                                       *)

GeneratedA ==
    << [id |-> "q1", type |-> MULTIPLE_CHOICE, options |-> << NoAnswer, <<"b">> >>,
        correctAnswer |-> NoAnswer],
       [id |-> "q2", type |-> SHORT_ANSWER, options |-> <<>>,
        correctAnswer |-> <<"A", "b">>] >>

GeneratedB ==
    << [id |-> "q1", type |-> TRUE_FALSE, options |-> <<>>,
        correctAnswer |-> <<"t", "r", "u", "e", " ">>] >>

GeneratedPool == {GeneratedA, GeneratedB}

\* Texts the user may type into the short-answer input.
TypedTexts == { <<>>, <<" ", "a", "B", " ">> }

Files == {[name |-> <<"n", ".", "p", "d", "f">>, type |-> PdfType]}

\* Files with contents, for the extractors.
PdfFile(decodes, pages) ==
    [name |-> <<"a", ".", "p", "d", "f">>, type |-> PdfType,
     content |-> [kind |-> "pdf", decodes |-> decodes, pages |-> pages]]
SheetFile(decodes, csv) ==
    [name |-> <<"a", ".", "x", "l", "s", "x">>, type |-> XlsxType,
     content |-> [kind |-> "sheet", decodes |-> decodes,
                  sheets |-> <<[name |-> <<"S">>, csv |-> csv]>>]]

\* The length of a CSV that brings the extracted text to the slice limit.
CsvAtLimit == SliceLimit - TextLength(SheetMarker(<<"S">>))

ExtractFiles ==
    { PdfFile(FALSE, <<>>),
      PdfFile(TRUE, <<>>),
      PdfFile(TRUE, << <<>>, <<>> >>),
      PdfFile(TRUE, << <<Text(<<" ">>)>> >>),
      PdfFile(TRUE, << <<Text(<<"H", "i">>), Text(<<"a">>)>>, <<>> >>),
      SheetFile(FALSE, <<>>),
      SheetFile(TRUE, <<>>),
      SheetFile(TRUE, Text(<<" ", "\n">>)),
      SheetFile(TRUE, Text(<<"a", ",", "b", "\n", "1", ",", "2">>)),
      SheetFile(TRUE, <<Run("x", CsvAtLimit - 1)>>),
      SheetFile(TRUE, <<Run("x", CsvAtLimit)>>),
      SheetFile(TRUE, <<Run("x", CsvAtLimit), Run("y", 1)>>),
      [name |-> <<"a", ".", "p", "n", "g">>, type |-> PngType, content |-> [kind |-> "image", data |-> "base64"]] }

\* The files a user may offer to the upload control.
UploadNames == { <<"a", ".", "p", "d", "f">>, <<"a", ".", "P", "D", "F">>, <<"a", ".", "x", "l", "s", "x">>,
                 <<"a", ".", "X", "L", "S">>, <<"a", ".", "h", "e", "i", "c">>, <<"a", ".", "t", "x", "t">> }
UploadTypes == { <<>>, PdfType, XlsType, PngType, <<"image/", "gif">>, <<"text/", "plain">> }
UploadCandidates == { [name |-> n, type |-> t] : <<n, t>> \in UploadNames \X UploadTypes }

----------------------------------------------------------------------------
(* QuizView: derived values of a render *)

\* <QuizView> is rendered by App only in TAKING_QUIZ with a quiz.
Mounted == appState = "TAKING_QUIZ" /\ currentQuiz # NoQuiz /\ ~crashed

\* quiz.questions[index]: 0-based in the source, 1-based sequences here.
QuestionAt(quiz, index) == quiz.questions[index + 1]

HasQuestionAt(quiz, index) == index + 1 \in DOMAIN quiz.questions

currentQuestion == QuestionAt(currentQuiz, currentQuestionIndex)

isLastQuestion == currentQuestionIndex = Len(currentQuiz.questions) - 1

\* answers[id] is neither undefined nor '' (JavaScript truthiness of a string).
Truthy(ans, id) == id \in DOMAIN ans /\ ans[id] # <<>>

\* Faulty variant: the Next/Finish button is never disabled.
NextDisabled_Never == FALSE

\* The Next/Finish button's disabled attribute.
NextDisabled == ~Truthy(answers, currentQuestion.id)

\* The Previous button's disabled attribute.
PreviousDisabled == currentQuestionIndex = 0

\* The render of the question screen reads currentQuestion.type: it throws when
\* the index is outside the quiz. The results screen reads no current question.
RenderThrows(quiz, index, finished) == ~finished /\ ~HasQuestionAt(quiz, index)

\* The values handleAnswer can be called with from the rendered question.
AnswerChoices(q) ==
    CASE q.type = MULTIPLE_CHOICE -> {q.options[i] : i \in DOMAIN q.options}
      [] q.type = TRUE_FALSE      -> {StrTrue, StrFalse}
      [] OTHER                    -> TypedTexts

\* Faulty variant: the updater leaves the index where it is.
PreviousIndex_Stays(prev) == prev

\* handlePrevious' updater: prev => prev - 1
PreviousIndex(prev) == prev - 1

\* value={answers[currentQuestion.id] || ''}: the text the input shows.
InputValue(ans, id) == IF Truthy(ans, id) THEN ans[id] ELSE <<>>

\* Faulty variant: the updater forgets the other answers.
RecordAnswer_Fresh(prev, id, answer) == [k \in {id} |-> answer]

\* handleAnswer's updater: prev => ({...prev, [currentQuestion.id]: answer})
RecordAnswer(prev, id, answer) ==
    [k \in DOMAIN prev \cup {id} |-> IF k = id THEN answer ELSE prev[k]]

----------------------------------------------------------------------------
(* QuizView: scoring and review *)

\* Faulty variant: finishQuiz compares without trim().
FinishMatches_NoTrim(q, ans) ==
    /\ q.id \in DOMAIN ans
    /\ ToLowerCase(ans[q.id]) = ToLowerCase(q.correctAnswer)

\* answers[q.id]?.toLowerCase().trim() === q.correctAnswer.toLowerCase().trim()
\* in finishQuiz; undefined never equals a string.
FinishMatches(q, ans) ==
    /\ q.id \in DOMAIN ans
    /\ Trim(ToLowerCase(ans[q.id])) = Trim(ToLowerCase(q.correctAnswer))

\* finishQuiz: the forEach loop that counts the score.
RECURSIVE FinishScoreFrom(_, _, _, _)
FinishScoreFrom(questions, ans, i, score) ==
    IF i > Len(questions) THEN score
    ELSE FinishScoreFrom(questions, ans, i + 1,
                         IF FinishMatches(questions[i], ans) THEN score + 1 ELSE score)

FinishScore(questions, ans) == FinishScoreFrom(questions, ans, 1, 0)

\* The QuizAttempt finishQuiz passes to onComplete.
FinishAttempt(questions, ans) ==
    [answers |-> ans, isSubmitted |-> TRUE, score |-> FinishScore(questions, ans)]

\* Faulty variant: finishQuiz leaves isFinished false.
FinishFlag_NotSet == FALSE

\* The value finishQuiz gives isFinished.
FinishFlag == TRUE

\* Faulty variant: getScore compares without toLowerCase().
GetScoreMatches_CaseSensitive(q, ans) ==
    /\ q.id \in DOMAIN ans
    /\ Trim(ans[q.id]) = Trim(q.correctAnswer)

\* The same comparison, as written a second time in getScore.
GetScoreMatches(q, ans) ==
    /\ q.id \in DOMAIN ans
    /\ Trim(ToLowerCase(ans[q.id])) = Trim(ToLowerCase(q.correctAnswer))

RECURSIVE GetScoreFrom(_, _, _, _)
GetScoreFrom(questions, ans, i, score) ==
    IF i > Len(questions) THEN score
    ELSE GetScoreFrom(questions, ans, i + 1,
                      IF GetScoreMatches(questions[i], ans) THEN score + 1 ELSE score)

\* getScore, called by the results screen.
GetScore(questions, ans) == GetScoreFrom(questions, ans, 1, 0)

\* Review: const userAnswer = answers[q.id] || "No answer"
ReviewUserAnswer(q, ans) == IF Truthy(ans, q.id) THEN ans[q.id] ELSE NoAnswer

\* Review: const isCorrect = userAnswer.toLowerCase().trim() === ...
ReviewIsCorrect(q, ans) ==
    Trim(ToLowerCase(ReviewUserAnswer(q, ans))) = Trim(ToLowerCase(q.correctAnswer))

----------------------------------------------------------------------------
(* QuizView: auto-advance timers *)

\* A scheduled callback: idx is the currentQuestionIndex its closure captured.
\* dead: the component instance that scheduled it has been unmounted, so its
\* state updates are discarded. prior and moved are history: the callback was
\* scheduled in an earlier session of the same instance; it was scheduled in the
\* running session and the index was changed by handleNext/handlePrevious since.
NoTimer == [idx |-> -1, dead |-> FALSE, prior |-> FALSE, moved |-> FALSE]

NewTimer(index) == [idx |-> index, dead |-> FALSE, prior |-> FALSE, moved |-> FALSE]

\* handleAnswer's condition for scheduling the auto-advance.
SchedulesAdvance(q, last) ==
    (q.type = MULTIPLE_CHOICE \/ q.type = TRUE_FALSE) /\ ~last

\* Faulty variant: the updater does not compare with the captured index.
AdvanceIndex_Always(prevIndex, captured) == prevIndex + 1

\* The updater the callback passes to setCurrentQuestionIndex.
AdvanceIndex(prevIndex, captured) ==
    IF prevIndex = captured THEN prevIndex + 1 ELSE prevIndex

MarkDead(ts)  == [i \in DOMAIN ts |-> [NoTimer EXCEPT !.idx = ts[i].idx, !.dead = TRUE]]
MarkPrior(ts) ==
    [i \in DOMAIN ts |->
        IF ts[i].dead THEN ts[i] ELSE [NoTimer EXCEPT !.idx = ts[i].idx, !.prior = TRUE]]
MarkMoved(ts) ==
    [i \in DOMAIN ts |->
        IF ts[i].dead \/ ts[i].prior THEN ts[i] ELSE [ts[i] EXCEPT !.moved = TRUE]]

----------------------------------------------------------------------------
(* App: pure parts *)

\* Faulty variant: the updater keeps the best score instead of the last one.
CompleteUpdater_BestScore(prev, cur, attempt) ==
    [i \in DOMAIN prev |->
        IF prev[i].id = cur.id /\ attempt.score > prev[i].score
        THEN [prev[i] EXCEPT !.score = attempt.score]
        ELSE prev[i]]

\* handleQuizComplete's updater: prev.map(q => q.id === currentQuiz.id ? ...)
CompleteUpdater(prev, cur, attempt) ==
    [i \in DOMAIN prev |->
        IF prev[i].id = cur.id THEN [prev[i] EXCEPT !.score = attempt.score]
        ELSE prev[i]]

\* handleQuizComplete: returns early without a current quiz.
HandleQuizComplete(prev, cur, attempt) ==
    IF cur = NoQuiz THEN prev ELSE CompleteUpdater(prev, cur, attempt)

\* deleteQuiz's updater: prev.filter(q => q.id !== id)
DeleteUpdater(prev, id) == SelectSeq(prev, LAMBDA q : q.id # id)

\* Faulty variant: only a[i] is assigned.
Swap_Overwrite(a, i, j) == [a EXCEPT ![i + 1] = a[j + 1]]

\* [a[i], a[j]] = [a[j], a[i]] on 0-based positions.
Swap(a, i, j) == [a EXCEPT ![i + 1] = a[j + 1], ![j + 1] = a[i + 1]]

\* startQuiz: the Fisher-Yates loop, i from length-1 down to 1; js[i] is the
\* value of Math.floor(Math.random() * (i + 1)) drawn at step i.
RECURSIVE ShuffleFrom(_, _, _)
ShuffleFrom(a, i, js) ==
    IF i > 0 THEN ShuffleFrom(Swap(a, i, js[i]), i - 1, js) ELSE a

Shuffle(questions, js) == ShuffleFrom(questions, Len(questions) - 1, js)

\* Faulty variant: every draw ranges over all n positions.
RandomDraws_AnyPosition(n) == [1..(n - 1) -> 0..(n - 1)]

\* The sequences of random draws the loop can make on n elements.
RandomDraws(n) == {js \in [1..(n - 1) -> 0..(n - 1)] : \A i \in 1..(n - 1) : js[i] <= i}

\* Faulty variant: totalQuestions is the requested questionCount.
NewQuiz_RequestedCount(now, questions) ==
    [id |-> now, questions |-> questions, totalQuestions |-> 5, score |-> Unset]

\* handleGenerate: the Quiz built from the generated data at time now.
NewQuiz(now, questions) ==
    [id |-> now, questions |-> questions, totalQuestions |-> Len(questions),
     score |-> Unset]

\* The Button component's onClick runs unless it is disabled or loading.
ButtonFires(disabled, isLoading) == ~disabled /\ ~isLoading

----------------------------------------------------------------------------
(* Persistence: the item 'quizgen_quizzes'. A stored text is held as the    *)
(* JSON value it denotes: an array of items, an object of members, a        *)
(* primitive, or a text JSON.parse rejects; getItem gives null for no item. *)

NoItem == [json |-> "null"]
EmptyItem == [json |-> "empty string"]
Malformed == [json |-> "malformed"]
EmptyObject == [json |-> "object", members |-> <<>>]

\* JSON.stringify of a Question.
StringifyQuestion(q) ==
    [json |-> "object",
     members |-> [id |-> [json |-> "value", v |-> q.id],
                  type |-> [json |-> "value", v |-> q.type],
                  options |-> [json |-> "array",
                               items |-> [i \in DOMAIN q.options |->
                                             [json |-> "value", v |-> q.options[i]]]],
                  correctAnswer |-> [json |-> "value", v |-> q.correctAnswer]]]

\* Faulty variant: the score is not written.
StringifyQuiz_DropsScore(quiz) ==
    [json |-> "object",
     members |-> [id |-> [json |-> "value", v |-> quiz.id],
                  questions |-> [json |-> "array",
                                 items |-> [i \in DOMAIN quiz.questions |->
                                               StringifyQuestion(quiz.questions[i])]],
                  totalQuestions |-> [json |-> "value", v |-> quiz.totalQuestions]]]

\* JSON.stringify of a Quiz: a property whose value is undefined is left out.
StringifyQuiz(quiz) ==
    [json |-> "object",
     members |->
        IF quiz.score = Unset
        THEN [id |-> [json |-> "value", v |-> quiz.id],
              questions |-> [json |-> "array",
                             items |-> [i \in DOMAIN quiz.questions |->
                                           StringifyQuestion(quiz.questions[i])]],
              totalQuestions |-> [json |-> "value", v |-> quiz.totalQuestions]]
        ELSE [id |-> [json |-> "value", v |-> quiz.id],
              questions |-> [json |-> "array",
                             items |-> [i \in DOMAIN quiz.questions |->
                                           StringifyQuestion(quiz.questions[i])]],
              totalQuestions |-> [json |-> "value", v |-> quiz.totalQuestions],
              score |-> [json |-> "value", v |-> quiz.score]]]

\* JSON.stringify(quizzes)
Stringify(library) ==
    [json |-> "array", items |-> [i \in DOMAIN library |-> StringifyQuiz(library[i])]]

ParseQuestion(object) ==
    [id |-> object.members.id.v, type |-> object.members.type.v,
     options |-> [i \in DOMAIN object.members.options.items |->
                     object.members.options.items[i].v],
     correctAnswer |-> object.members.correctAnswer.v]

\* A parsed Quiz: a property the text does not have reads as undefined.
ParseQuiz(object) ==
    [id |-> object.members.id.v,
     questions |-> [i \in DOMAIN object.members.questions.items |->
                       ParseQuestion(object.members.questions.items[i])],
     totalQuestions |-> object.members.totalQuestions.v,
     score |-> IF "score" \in DOMAIN object.members THEN object.members.score.v ELSE Unset]

ParseThrows(item) == item.json = "malformed"

\* JSON.parse(savedQuizzes) where it does not throw.
Parse(item) ==
    IF item.json = "array" THEN [i \in DOMAIN item.items |-> ParseQuiz(item.items[i])]
    ELSE item

\* if (savedQuizzes): null and the empty string are falsy.
TruthyItem(item) == item # NoItem /\ item # EmptyItem

\* The dashboard calls quizzes.map, which only an array has.
IsArray(item) == item.json = "array"

\* The save effect, run after a render that committed a new quizzes value.
SaveEffect == storage' = IF crashed' THEN storage ELSE Stringify(quizzes')

Ready == [phase |-> "ready"]

----------------------------------------------------------------------------
(* Initial state: App and QuizView useState initial values *)

Ev(op) ==
    [op |-> op, t |-> NoTimer, blocked |-> FALSE, old |-> Unset, answer |-> <<>>,
     offered |-> NoFile]

Init ==
    /\ appState = "DASHBOARD"
    /\ quizzes = <<>>
    /\ currentQuiz = NoQuiz
    /\ previewQuiz = NoQuiz
    /\ file = NoFile
    /\ isProcessing = FALSE
    /\ error = NoError
    /\ pending = {}
    /\ clock = 0
    /\ currentQuestionIndex = 0
    /\ answers = EmptyAnswers
    /\ showFeedback = FALSE
    /\ isFinished = FALSE
    /\ timers = <<>>
    /\ crashed = FALSE
    /\ attempts = <<>>
    /\ lastScore = [id \in 1..MaxClock |-> Unset]
    /\ ev = Ev("Init")
    /\ storage = Stringify(quizzes)
    /\ startup = Ready

\* Faulty variant: the reset effect leaves the answers.
ResetView_KeepsAnswers ==
    /\ currentQuestionIndex' = 0
    /\ showFeedback' = FALSE
    /\ isFinished' = FALSE
    /\ UNCHANGED answers

\* The four useState initial values, also the values the reset effect sets.
ResetView ==
    /\ currentQuestionIndex' = 0
    /\ answers' = EmptyAnswers
    /\ showFeedback' = FALSE
    /\ isFinished' = FALSE

\* What QuizView does when App sets appState to TAKING_QUIZ and currentQuiz to
\* quiz. A mounted QuizView first renders the new quiz with the state it has,
\* then the effect on [quiz.id] resets the state; an unmounted one mounts with
\* the initial state. A render that throws unmounts the tree and runs no effect.
ShowQuiz(quiz) ==
    IF Mounted
    THEN IF RenderThrows(quiz, currentQuestionIndex, isFinished)
         THEN /\ crashed' = TRUE
              /\ timers' = MarkDead(timers)
              /\ UNCHANGED <<viewVars, attempts>>
         ELSE IF quiz.id # currentQuiz.id
              THEN /\ ResetView
                   /\ timers' = MarkPrior(timers)
                   /\ attempts' = <<>>
                   /\ UNCHANGED crashed
              ELSE UNCHANGED <<viewVars, timers, attempts, crashed>>
    ELSE /\ ResetView
         /\ attempts' = <<>>
         /\ crashed' = RenderThrows(quiz, 0, FALSE)
         /\ UNCHANGED timers

----------------------------------------------------------------------------
(* App actions *)

OnDashboard == startup = Ready /\ appState = "DASHBOARD" /\ ~crashed

\* FileUpload passes the chosen file to setFile.
SelectFile(f) ==
    /\ OnDashboard
    /\ file = NoFile
    /\ file' = f
    /\ ev' = Ev("App")
    /\ UNCHANGED <<appState, quizzes, currentQuiz, previewQuiz, isProcessing, error,
                   pending, clock, viewVars, timers, crashed, attempts, lastScore>>
    /\ UNCHANGED <<storage, startup>>

\* FileUpload's onClear.
ClearFile ==
    /\ OnDashboard
    /\ file # NoFile
    /\ file' = NoFile
    /\ ev' = Ev("App")
    /\ UNCHANGED <<appState, quizzes, currentQuiz, previewQuiz, isProcessing, error,
                   pending, clock, viewVars, timers, crashed, attempts, lastScore>>
    /\ UNCHANGED <<storage, startup>>

\* Faulty variant: setIsProcessing(true) is left out.
HandleGenerate_NoFlag ==
    /\ OnDashboard
    /\ ButtonFires(file = NoFile, isProcessing)
    /\ file # NoFile
    /\ error' = NoError
    /\ pending' = pending \cup {[file |-> file, stage |-> ParseFilePath(file),
                                  started |-> clock]}
    /\ ev' = Ev("App")
    /\ UNCHANGED <<appState, quizzes, currentQuiz, previewQuiz, file, isProcessing, clock,
                   viewVars, timers, crashed, attempts, lastScore>>
    /\ UNCHANGED <<storage, startup>>

\* handleGenerate up to its first await: parseFile has chosen its branch and
\* started the read, or has thrown, which the catch block will see.
HandleGenerate ==
    /\ OnDashboard
    /\ ButtonFires(file = NoFile, isProcessing)
    /\ file # NoFile
    /\ isProcessing' = TRUE
    /\ error' = NoError
    /\ pending' = pending \cup {[file |-> file, stage |-> ParseFilePath(file),
                                  started |-> clock]}
    /\ ev' = Ev("App")
    /\ UNCHANGED <<appState, quizzes, currentQuiz, previewQuiz, file, clock,
                   viewVars, timers, crashed, attempts, lastScore>>
    /\ UNCHANGED <<storage, startup>>

\* await parseFile(file) resolves: handleGenerate goes on to the generation call.
ParseResolves(task) ==
    /\ ~crashed
    /\ task \in pending
    /\ task.stage \in ReadStages
    /\ pending' = (pending \ {task}) \cup {[task EXCEPT !.stage = "generateQuizFromContent"]}
    /\ ev' = Ev("App")
    /\ UNCHANGED <<appState, quizzes, currentQuiz, previewQuiz, file, isProcessing, error,
                   clock, viewVars, timers, crashed, attempts, lastScore>>
    /\ UNCHANGED <<storage, startup>>

\* Faulty variant: without the finally block.
GenerateFails_KeepsFlag(task) ==
    /\ ~crashed
    /\ task \in pending
    /\ task.stage # Unsupported
    /\ pending' = pending \ {task}
    /\ error' = "message"
    /\ ev' = Ev("App")
    /\ UNCHANGED <<appState, quizzes, currentQuiz, previewQuiz, file, isProcessing, clock,
                   viewVars, timers, crashed, attempts, lastScore>>
    /\ UNCHANGED <<storage, startup>>

\* Either await rejects: the catch block sets the error, finally clears the flag.
GenerateFails(task) ==
    /\ ~crashed
    /\ task \in pending
    /\ task.stage # Unsupported
    /\ pending' = pending \ {task}
    /\ error' = "message"
    /\ isProcessing' = FALSE
    /\ ev' = Ev("App")
    /\ UNCHANGED <<appState, quizzes, currentQuiz, previewQuiz, file, clock,
                   viewVars, timers, crashed, attempts, lastScore>>
    /\ UNCHANGED <<storage, startup>>

\* Date.now() on a clock that runs on: a value later than the click that
\* started the call. Quiz ids are only compared for equality, so the clock is
\* read as unchanged or one unit later.
LaterReads(task) == {now \in {clock, clock + 1} : now > task.started /\ now <= MaxClock}

\* await generateQuizFromContent resolves with questions; Date.now() returns
\* now.
GenerateSucceeds(task, questions, now) ==
    /\ ~crashed
    /\ task \in pending
    /\ task.stage = "generateQuizFromContent"
    /\ now \in 1..MaxClock
    /\ pending' = pending \ {task}
    /\ clock' = now
    /\ quizzes' = <<NewQuiz(now, questions)>> \o quizzes
    /\ currentQuiz' = QuizCopy(NewQuiz(now, questions))
    /\ appState' = "TAKING_QUIZ"
    /\ file' = NoFile
    /\ isProcessing' = FALSE
    /\ ShowQuiz(QuizCopy(NewQuiz(now, questions)))
    /\ ev' = Ev("GenerateSucceeds")
    /\ UNCHANGED <<previewQuiz, error, lastScore>>
    /\ SaveEffect
    /\ UNCHANGED startup

\* A library card is clicked (the modal covers the cards while it is open).
OpenQuizPreview(i) ==
    /\ OnDashboard
    /\ previewQuiz = NoQuiz
    /\ i \in DOMAIN quizzes
    /\ previewQuiz' = QuizCopy(quizzes[i])
    /\ ev' = Ev("App")
    /\ UNCHANGED <<appState, quizzes, currentQuiz, file, isProcessing, error,
                   pending, clock, viewVars, timers, crashed, attempts, lastScore>>
    /\ UNCHANGED <<storage, startup>>

\* The modal's close button.
ClosePreview ==
    /\ OnDashboard
    /\ previewQuiz # NoQuiz
    /\ previewQuiz' = NoQuiz
    /\ ev' = Ev("App")
    /\ UNCHANGED <<appState, quizzes, currentQuiz, file, isProcessing, error,
                   pending, clock, viewVars, timers, crashed, attempts, lastScore>>
    /\ UNCHANGED <<storage, startup>>

\* deleteQuiz(previewQuiz.id), the modal's Delete Quiz button.
DeleteQuiz ==
    /\ OnDashboard
    /\ previewQuiz # NoQuiz
    /\ quizzes' = DeleteUpdater(quizzes, previewQuiz.id)
    /\ previewQuiz' = NoQuiz
    /\ lastScore' = [lastScore EXCEPT ![previewQuiz.id] = Unset]
    /\ ev' = Ev("App")
    /\ UNCHANGED <<appState, currentQuiz, file, isProcessing, error,
                   pending, clock, viewVars, timers, crashed, attempts>>
    /\ SaveEffect
    /\ UNCHANGED startup

\* startQuiz(previewQuiz, randomize); js are the random draws of the shuffle.
StartQuiz(randomize, js) ==
    /\ OnDashboard
    /\ previewQuiz # NoQuiz
    /\ LET quizToStart ==
               IF randomize
               THEN [previewQuiz EXCEPT !.questions = Shuffle(previewQuiz.questions, js)]
               ELSE previewQuiz
       IN /\ currentQuiz' = quizToStart
          /\ ShowQuiz(quizToStart)
    /\ previewQuiz' = NoQuiz
    /\ appState' = "TAKING_QUIZ"
    /\ ev' = Ev(IF randomize THEN "StartQuizRandomized" ELSE "StartQuiz")
    /\ UNCHANGED <<quizzes, file, isProcessing, error, pending, clock, lastScore>>
    /\ UNCHANGED <<storage, startup>>

\* onExit and the navbar: setAppState('DASHBOARD') unmounts QuizView; its state
\* is discarded and the callbacks it scheduled update nothing any more.
ExitQuiz ==
    /\ appState = "TAKING_QUIZ"
    /\ ~crashed
    /\ appState' = "DASHBOARD"
    /\ ResetView
    /\ timers' = MarkDead(timers)
    /\ attempts' = <<>>
    /\ ev' = Ev("App")
    /\ UNCHANGED <<quizzes, currentQuiz, previewQuiz, file, isProcessing, error,
                   pending, clock, crashed, lastScore>>
    /\ UNCHANGED <<storage, startup>>

----------------------------------------------------------------------------
(* QuizView actions *)

QuestionScreen == Mounted /\ ~isFinished

\* handleAnswer(answer), from an option button or the text input (whose
\* onChange runs when the text differs from the one shown).
HandleAnswer(answer) ==
    /\ QuestionScreen
    /\ currentQuestion.type = SHORT_ANSWER => answer # InputValue(answers, currentQuestion.id)
    /\ IF showFeedback \/ isFinished
       THEN UNCHANGED <<answers, timers>>
       ELSE /\ answers' = RecordAnswer(answers, currentQuestion.id, answer)
            /\ IF SchedulesAdvance(currentQuestion, isLastQuestion)
               THEN /\ Len(timers) < MaxTimers
                    /\ timers' = Append(timers, NewTimer(currentQuestionIndex))
               ELSE UNCHANGED timers
    /\ ev' = [Ev("HandleAnswer") EXCEPT !.answer = answer]
    /\ UNCHANGED <<appVars, currentQuestionIndex, showFeedback, isFinished, crashed,
                   attempts, lastScore>>
    /\ UNCHANGED <<storage, startup>>

\* A click on Next/Finish: handleNext, which calls finishQuiz on the last
\* question; finishQuiz calls onComplete = handleQuizComplete.
HandleNext ==
    /\ QuestionScreen
    /\ UNCHANGED <<appState, currentQuiz, previewQuiz, file, isProcessing, error,
                   pending, clock, crashed, startup>>
    /\ IF ~ButtonFires(NextDisabled, FALSE)
       THEN /\ ev' = [Ev("HandleNext") EXCEPT !.blocked = TRUE]
            /\ UNCHANGED <<quizzes, storage, viewVars, timers, attempts, lastScore>>
       ELSE IF isLastQuestion
            THEN LET attempt == FinishAttempt(currentQuiz.questions, answers)
                 IN /\ isFinished' = FinishFlag
                    /\ attempts' = Append(attempts, attempt)
                    /\ quizzes' = HandleQuizComplete(quizzes, currentQuiz, attempt)
                    /\ SaveEffect
                    /\ lastScore' = [lastScore EXCEPT ![currentQuiz.id] = attempt.score]
                    /\ ev' = [Ev("HandleNext") EXCEPT !.old = lastScore[currentQuiz.id]]
                    /\ UNCHANGED <<currentQuestionIndex, answers, showFeedback, timers>>
            ELSE /\ currentQuestionIndex' = currentQuestionIndex + 1
                 /\ showFeedback' = FALSE
                 /\ timers' = MarkMoved(timers)
                 /\ ev' = Ev("HandleNext")
                 /\ UNCHANGED <<quizzes, storage, answers, isFinished, attempts, lastScore>>

\* A click on Previous: handlePrevious.
HandlePrevious ==
    /\ QuestionScreen
    /\ IF ~ButtonFires(PreviousDisabled, FALSE)
       THEN /\ ev' = [Ev("HandlePrevious") EXCEPT !.blocked = TRUE]
            /\ UNCHANGED <<currentQuestionIndex, showFeedback, timers>>
       ELSE /\ ev' = Ev("HandlePrevious")
            /\ IF currentQuestionIndex > 0
               THEN /\ currentQuestionIndex' = PreviousIndex(currentQuestionIndex)
                    /\ showFeedback' = FALSE
                    /\ timers' = MarkMoved(timers)
               ELSE UNCHANGED <<currentQuestionIndex, showFeedback, timers>>
    /\ UNCHANGED <<appVars, answers, isFinished, crashed, attempts, lastScore>>
    /\ UNCHANGED <<storage, startup>>

\* The oldest setTimeout callback runs (all delays are equal, so callbacks run
\* in the order they were scheduled; nothing ever calls clearTimeout).
TimerFires ==
    /\ timers # <<>>
    /\ LET t == Head(timers)
       IN /\ ev' = [Ev("TimerFires") EXCEPT !.t = t]
          /\ IF t.dead
             THEN /\ timers' = Tail(timers)
                  /\ UNCHANGED <<currentQuestionIndex, showFeedback, crashed>>
             ELSE /\ currentQuestionIndex' = AdvanceIndex(currentQuestionIndex, t.idx)
                  /\ showFeedback' = FALSE
                  /\ crashed' = RenderThrows(currentQuiz, currentQuestionIndex', isFinished)
                  /\ timers' = IF crashed' THEN MarkDead(Tail(timers)) ELSE Tail(timers)
    /\ UNCHANGED <<appVars, answers, isFinished, attempts, lastScore>>
    /\ UNCHANGED <<storage, startup>>

----------------------------------------------------------------------------

Next ==
    \/ \E f \in Files : SelectFile(f)
    \/ ClearFile
    \/ HandleGenerate
    \/ \E task \in pending : ParseResolves(task)
    \/ \E task \in pending : GenerateFails(task)
    \/ \E task \in pending, questions \in GeneratedPool :
           \E now \in LaterReads(task) : GenerateSucceeds(task, questions, now)
    \/ \E i \in 1..MaxClock : OpenQuizPreview(i)
    \/ ClosePreview
    \/ DeleteQuiz
    \/ StartQuiz(FALSE, <<>>)
    \/ \E js \in RandomDraws(Len(previewQuiz.questions)) : StartQuiz(TRUE, js)
    \/ ExitQuiz
    \/ \E answer \in (IF QuestionScreen THEN AnswerChoices(currentQuestion) ELSE {}) :
           HandleAnswer(answer)
    \/ HandleNext
    \/ HandlePrevious
    \/ TimerFires

Spec == Init /\ [][Next]_vars

----------------------------------------------------------------------------
(* QuizView on its own: the component with everything App can do to it.     *)
(* App renders it with a quiz (startQuiz after the dashboard, or a quiz     *)
(* just generated, which may replace the one of a mounted QuizView and then *)
(* has a new id) and removes it (setAppState('DASHBOARD')); when and with   *)
(* which quiz is left open.                                                 *)

\* The quizzes App may pass: a generated quiz, in stored or shuffled order.
PassedQuizzes ==
    UNION { { QuizCopy(NewQuiz(id, Shuffle(questions, js))) :
                js \in RandomDraws(Len(questions)) } :
            <<id, questions>> \in (1..MaxClock) \X GeneratedPool }

\* setCurrentQuiz(quiz); setAppState('TAKING_QUIZ')
PassQuiz(quiz) ==
    /\ ~crashed
    /\ Mounted => quiz.id # currentQuiz.id
    /\ currentQuiz' = quiz
    /\ appState' = "TAKING_QUIZ"
    /\ ShowQuiz(quiz)
    /\ ev' = Ev("StartQuiz")
    /\ UNCHANGED <<quizzes, previewQuiz, file, isProcessing, error, pending, clock,
                   lastScore>>
    /\ UNCHANGED <<storage, startup>>

NextView ==
    \/ \E quiz \in PassedQuizzes : PassQuiz(quiz)
    \/ ExitQuiz
    \/ \E answer \in (IF QuestionScreen THEN AnswerChoices(currentQuestion) ELSE {}) :
           HandleAnswer(answer)
    \/ HandleNext
    \/ HandlePrevious
    \/ TimerFires

SpecView == Init /\ [][NextView]_vars

----------------------------------------------------------------------------
(* App on its own: QuizView is reduced to the one thing it does to App,     *)
(* calling onComplete with an attempt; which attempt and when is left open. *)

\* handleQuizComplete(attempt), called by the mounted QuizView.
QuizComplete(score) ==
    /\ Mounted
    /\ score \in 0..currentQuiz.totalQuestions
    /\ quizzes' = HandleQuizComplete(quizzes, currentQuiz,
                     [answers |-> EmptyAnswers, isSubmitted |-> TRUE, score |-> score])
    /\ lastScore' = [lastScore EXCEPT ![currentQuiz.id] = score]
    /\ ev' = [Ev("HandleQuizComplete") EXCEPT !.old = lastScore[currentQuiz.id]]
    /\ UNCHANGED <<appState, currentQuiz, previewQuiz, file, isProcessing, error,
                   pending, clock, viewVars, timers, crashed, attempts>>
    /\ SaveEffect
    /\ UNCHANGED startup

NextApp ==
    \/ \E f \in Files : SelectFile(f)
    \/ ClearFile
    \/ HandleGenerate
    \/ \E task \in pending : ParseResolves(task)
    \/ \E task \in pending : GenerateFails(task)
    \/ \E task \in pending, questions \in GeneratedPool :
           \E now \in LaterReads(task) : GenerateSucceeds(task, questions, now)
    \/ \E i \in 1..MaxClock : OpenQuizPreview(i)
    \/ ClosePreview
    \/ DeleteQuiz
    \/ StartQuiz(FALSE, <<>>)
    \/ \E js \in RandomDraws(Len(previewQuiz.questions)) : StartQuiz(TRUE, js)
    \/ ExitQuiz
    \/ \E score \in 0..MaxQuestions : QuizComplete(score)

SpecApp == Init /\ [][NextApp]_vars

----------------------------------------------------------------------------
(* App from its mount, with what an earlier run or anything else left in    *)
(* the item 'quizgen_quizzes'.                                              *)

StoredLibraries ==
    { <<>>,
      <<NewQuiz(1, GeneratedA)>>,
      <<[NewQuiz(2, GeneratedB) EXCEPT !.score = 1], NewQuiz(1, GeneratedA)>> }

StoredItems ==
    {NoItem, EmptyItem, Malformed, EmptyObject} \cup {Stringify(l) : l \in StoredLibraries}

\* The state after App's first render, before its effects have run.
InitStored ==
    /\ storage \in StoredItems
    /\ startup = [phase |-> "effects"]
    /\ clock = IF IsArray(storage) THEN Len(storage.items) ELSE 0
    /\ quizzes = <<>>
    /\ appState = "DASHBOARD"
    /\ currentQuiz = NoQuiz
    /\ previewQuiz = NoQuiz
    /\ file = NoFile
    /\ isProcessing = FALSE
    /\ error = NoError
    /\ pending = {}
    /\ currentQuestionIndex = 0
    /\ answers = EmptyAnswers
    /\ showFeedback = FALSE
    /\ isFinished = FALSE
    /\ timers = <<>>
    /\ crashed = FALSE
    /\ attempts = <<>>
    /\ lastScore = [id \in 1..MaxClock |-> Unset]
    /\ ev = Ev("Init")

\* The effects of the mount, in the order of their declaration: the load
\* effect reads the item and, if it is truthy and parses, calls setQuizzes;
\* the save effect writes the quizzes of this render, the empty library.
MountEffects ==
    /\ startup.phase = "effects"
    /\ startup' = IF TruthyItem(storage) /\ ~ParseThrows(storage)
                  THEN [phase |-> "render", read |-> storage]
                  ELSE Ready
    /\ storage' = Stringify(quizzes)
    /\ ev' = [Ev("MountEffects") EXCEPT !.offered = storage]
    /\ UNCHANGED <<appState, quizzes, currentQuiz, previewQuiz, file, isProcessing, error,
                   pending, clock, viewVars, timers, crashed, attempts, lastScore>>

\* The render with the parsed value: a value without map throws in the
\* dashboard; after a committed render the save effect runs again.
Rerender ==
    /\ startup.phase = "render"
    /\ quizzes' = Parse(startup.read)
    /\ crashed' = ~IsArray(startup.read)
    /\ SaveEffect
    /\ lastScore' = IF IsArray(startup.read)
                    THEN [id \in 1..MaxClock |->
                             IF \E i \in DOMAIN quizzes' : quizzes'[i].id = id
                             THEN (CHOOSE q \in {quizzes'[i] : i \in DOMAIN quizzes'} :
                                       q.id = id).score
                             ELSE Unset]
                    ELSE lastScore
    /\ startup' = Ready
    /\ ev' = [Ev("Rerender") EXCEPT !.offered = startup.read]
    /\ UNCHANGED <<appState, currentQuiz, previewQuiz, file, isProcessing, error,
                   pending, clock, viewVars, timers, attempts>>

NextPersist ==
    \/ MountEffects
    \/ Rerender
    \/ NextApp

SpecPersist == InitStored /\ [][NextPersist]_vars

----------------------------------------------------------------------------
(* Upload and extraction: the files a user can offer, from the upload       *)
(* control to the branch parseFile takes.                                   *)

\* validateAndSelect(f), from the file input or a drop.
ValidateAndSelect(f) ==
    /\ OnDashboard
    /\ file = NoFile
    /\ file' = IF Validates(f) THEN f ELSE file
    /\ ev' = [Ev("ValidateAndSelect") EXCEPT !.offered = f, !.blocked = ~Validates(f)]
    /\ UNCHANGED <<appState, quizzes, currentQuiz, previewQuiz, isProcessing, error,
                   pending, clock, viewVars, timers, crashed, attempts, lastScore>>
    /\ UNCHANGED <<storage, startup>>

\* parseFile has thrown for an unsupported file: catch sets the error, finally
\* clears the flag.
ParseRejects(task) ==
    /\ ~crashed
    /\ task \in pending
    /\ task.stage = Unsupported
    /\ pending' = pending \ {task}
    /\ error' = UnsupportedMessage
    /\ isProcessing' = FALSE
    /\ ev' = [Ev("ParseRejects") EXCEPT !.offered = task.file]
    /\ UNCHANGED <<appState, quizzes, currentQuiz, previewQuiz, file, clock,
                   viewVars, timers, crashed, attempts, lastScore>>
    /\ UNCHANGED <<storage, startup>>

NextUpload ==
    \/ \E f \in UploadCandidates : ValidateAndSelect(f)
    \/ ClearFile
    \/ HandleGenerate
    \/ \E task \in pending : ParseRejects(task)
    \/ \E task \in pending : ParseResolves(task)
    \/ \E task \in pending : GenerateFails(task)

SpecUpload == Init /\ [][NextUpload]_vars

----------------------------------------------------------------------------
(* Extraction: files with contents, from the upload control through         *)
(* parseFile to the request generateQuizFromContent builds.                 *)

\* await parseFile(file) settles with what the extractor makes of the file's
\* content: handleGenerate goes on to generateQuizFromContent, which builds
\* its request before its first await, or to the catch and finally blocks.
ParseSettles(task) ==
    /\ ~crashed
    /\ task \in pending
    /\ task.stage \in ReadStages
    /\ LET outcome == ParseOutcome(task.file, task.stage)
       IN IF outcome.ok
          THEN /\ pending' = (pending \ {task}) \cup
                               {[file |-> task.file, stage |-> "generateQuizFromContent",
                                 started |-> task.started, content |-> outcome.content,
                                 handed |-> Handed(outcome.content)]}
               /\ UNCHANGED <<error, isProcessing>>
          ELSE /\ pending' = pending \ {task}
               /\ error' = outcome.message
               /\ isProcessing' = FALSE
    /\ ev' = [Ev("ParseSettles") EXCEPT !.offered = task.file]
    /\ UNCHANGED <<appState, quizzes, currentQuiz, previewQuiz, file, clock,
                   viewVars, timers, crashed, attempts, lastScore>>
    /\ UNCHANGED <<storage, startup>>

NextExtract ==
    \/ \E f \in ExtractFiles : ValidateAndSelect(f)
    \/ ClearFile
    \/ HandleGenerate
    \/ \E task \in pending : ParseSettles(task)
    \/ \E task \in pending : GenerateFails(task)

SpecExtract == Init /\ [][NextExtract]_vars

----------------------------------------------------------------------------
(* The library and startQuiz: App mounted with a library saved by an        *)
(* earlier run, from which quizzes are previewed and started.               *)

QuestionIds == <<"q1", "q2", "q3", "q4", "q5">>

\* The questions of a saved quiz: n questions with distinct ids.
SavedQuestions(n) ==
    [i \in 1..n |-> [id |-> QuestionIds[i], type |-> SHORT_ANSWER, options |-> <<>>,
                     correctAnswer |-> <<"A", "b">>]]

\* The state after the mount effect has loaded the saved library (one quiz).
InitSaved ==
    /\ \E n \in 1..MaxQuestions : quizzes = <<NewQuiz(1, SavedQuestions(n))>>
    /\ appState = "DASHBOARD"
    /\ currentQuiz = NoQuiz
    /\ previewQuiz = NoQuiz
    /\ file = NoFile
    /\ isProcessing = FALSE
    /\ error = NoError
    /\ pending = {}
    /\ clock = 0
    /\ currentQuestionIndex = 0
    /\ answers = EmptyAnswers
    /\ showFeedback = FALSE
    /\ isFinished = FALSE
    /\ timers = <<>>
    /\ crashed = FALSE
    /\ attempts = <<>>
    /\ lastScore = [id \in 1..MaxClock |-> Unset]
    /\ ev = Ev("Init")
    /\ storage = Stringify(quizzes)
    /\ startup = Ready

NextShuffle ==
    \/ \E i \in 1..MaxClock : OpenQuizPreview(i)
    \/ ClosePreview
    \/ StartQuiz(FALSE, <<>>)
    \/ \E js \in RandomDraws(Len(previewQuiz.questions)) : StartQuiz(TRUE, js)
    \/ ExitQuiz

SpecShuffle == InitSaved /\ [][NextShuffle]_vars

----------------------------------------------------------------------------
(* Matching: a session on a one-question short-answer quiz, in which texts  *)
(* are typed and the quiz is finished.                                      *)

\* Correct answers the generation service may give.
MatchAnswers == { <<"S", "t", "r", "a", "ß", "e">>, <<"A", "b">>, <<" ", "a", "b">>, <<"S", "S">> }

\* Texts the user may type.
MatchTexts ==
    { <<"s", "t", "r", "a", "ß", "e">>, <<"S", "T", "R", "A", "S", "S", "E">>, <<" ", " ", "s", "t", "r", "a", "ß", "e", " ", " ">>, <<"s", "t", "r", "a", "s", "s", "e">>,
      <<"a", "b">>, <<"A", "B">>, <<"a", "B", " ">>, <<" ", " ", "a", "b", " ", " ">>, <<"s", "s">>, <<"b">> }

\* The state after startQuiz has opened the quiz.
InitMatch ==
    /\ \E c \in MatchAnswers :
          LET quiz == NewQuiz(1, <<[id |-> "q1", type |-> SHORT_ANSWER, options |-> <<>>,
                                    correctAnswer |-> c]>>)
          IN /\ quizzes = <<quiz>>
             /\ currentQuiz = QuizCopy(quiz)
    /\ appState = "TAKING_QUIZ"
    /\ previewQuiz = NoQuiz
    /\ file = NoFile
    /\ isProcessing = FALSE
    /\ error = NoError
    /\ pending = {}
    /\ clock = 1
    /\ currentQuestionIndex = 0
    /\ answers = EmptyAnswers
    /\ showFeedback = FALSE
    /\ isFinished = FALSE
    /\ timers = <<>>
    /\ crashed = FALSE
    /\ attempts = <<>>
    /\ lastScore = [id \in 1..MaxClock |-> Unset]
    /\ ev = Ev("Init")
    /\ storage = Stringify(quizzes)
    /\ startup = Ready

NextMatch ==
    \/ \E answer \in (IF QuestionScreen THEN MatchTexts ELSE {}) : HandleAnswer(answer)
    \/ HandleNext
    \/ HandlePrevious

SpecMatch == InitMatch /\ [][NextMatch]_vars

----------------------------------------------------------------------------
(* Quiz ids: App with a clock of which nothing is known. Date.now() is the  *)
(* system's wall clock in milliseconds: two reads may give the same value,  *)
(* and a later read a smaller one when the clock has been set back. The     *)
(* library is kept to MaxClock quizzes.                                     *)

NextIds ==
    \/ \E f \in Files : SelectFile(f)
    \/ ClearFile
    \/ HandleGenerate
    \/ \E task \in pending : ParseResolves(task)
    \/ \E task \in pending : GenerateFails(task)
    \/ \E task \in pending, questions \in GeneratedPool, now \in 1..MaxClock :
           Len(quizzes) < MaxClock /\ GenerateSucceeds(task, questions, now)
    \/ \E i \in 1..MaxClock : OpenQuizPreview(i)
    \/ ClosePreview
    \/ DeleteQuiz
    \/ StartQuiz(FALSE, <<>>)
    \/ \E js \in RandomDraws(Len(previewQuiz.questions)) : StartQuiz(TRUE, js)
    \/ ExitQuiz
    \/ \E score \in 0..MaxQuestions : QuizComplete(score)

SpecIds == Init /\ [][NextIds]_vars

----------------------------------------------------------------------------
(* Auto-advance: a session in which options are clicked, any number of      *)
(* times, and nothing else is; every setTimeout callback runs in the end.   *)

SelectionQuestions ==
    << [id |-> "q1", type |-> MULTIPLE_CHOICE, options |-> << <<"a">>, <<"b">> >>,
        correctAnswer |-> <<"a">>],
       [id |-> "q2", type |-> TRUE_FALSE, options |-> <<>>, correctAnswer |-> StrTrue],
       [id |-> "q3", type |-> MULTIPLE_CHOICE, options |-> << <<"a">>, <<"b">> >>,
        correctAnswer |-> <<"b">>],
       [id |-> "q4", type |-> TRUE_FALSE, options |-> <<>>, correctAnswer |-> StrFalse] >>

\* The state after startQuiz has opened a quiz.
InitAuto ==
    /\ \E questions \in {SelectionQuestions, GeneratedA} :
          /\ quizzes = <<NewQuiz(1, questions)>>
          /\ currentQuiz = QuizCopy(NewQuiz(1, questions))
    /\ appState = "TAKING_QUIZ"
    /\ previewQuiz = NoQuiz
    /\ file = NoFile
    /\ isProcessing = FALSE
    /\ error = NoError
    /\ pending = {}
    /\ clock = 1
    /\ currentQuestionIndex = 0
    /\ answers = EmptyAnswers
    /\ showFeedback = FALSE
    /\ isFinished = FALSE
    /\ timers = <<>>
    /\ crashed = FALSE
    /\ attempts = <<>>
    /\ lastScore = [id \in 1..MaxClock |-> Unset]
    /\ ev = Ev("Init")
    /\ storage = Stringify(quizzes)
    /\ startup = Ready

NextAuto ==
    \/ \E answer \in (IF QuestionScreen THEN AnswerChoices(currentQuestion) ELSE {}) :
           HandleAnswer(answer)
    \/ TimerFires

\* An expired setTimeout callback is run by the event loop.
SpecAuto == InitAuto /\ [][NextAuto]_vars /\ WF_vars(TimerFires)

----------------------------------------------------------------------------
(* Properties *)

SessionEvents == {"TimerFires", "HandleAnswer", "HandleNext", "HandlePrevious"}

LoadEvents == {"GenerateSucceeds", "StartQuiz", "StartQuizRandomized"}

\* C1: an auto-advance callback scheduled by handleAnswer in the running session
\* never changes currentQuestionIndex when it runs after the index was changed by
\* handleNext or handlePrevious, whatever navigation happened in between.
C1_NoAdvanceAfterNavigation ==
    [][(ev'.op = "TimerFires" /\ ~ev'.t.dead /\ ~ev'.t.prior /\ ev'.t.moved)
          => currentQuestionIndex' = currentQuestionIndex]_vars

\* C2: once the session is finished, no timer callback, answer, next or previous
\* event changes currentQuestionIndex, answers, isFinished or the derived score.
C2_FinishedIsStable ==
    [][(Mounted /\ isFinished /\ ev'.op \in SessionEvents)
          => /\ currentQuestionIndex' = currentQuestionIndex
             /\ answers' = answers
             /\ isFinished'
             /\ GetScore(currentQuiz.questions, answers)' =
                    GetScore(currentQuiz.questions, answers)]_vars

\* C3: a callback scheduled in a session that was exited, or replaced by the
\* load of another quiz, changes nothing of the QuizView state when it runs.
C3_NoLeakIntoNextSession ==
    [][(ev'.op = "TimerFires" /\ (ev'.t.dead \/ ev'.t.prior))
          => UNCHANGED <<currentQuestionIndex, answers, showFeedback, isFinished, crashed>>]_vars

\* C4: right after a quiz is loaded into QuizView (startQuiz, or a generated quiz
\* replacing the one being taken) the session state is the initial state.
C4_LoadResets ==
    ev.op \in LoadEvents =>
        /\ currentQuestionIndex = 0
        /\ answers = EmptyAnswers
        /\ showFeedback = FALSE
        /\ isFinished = FALSE

\* C5: a click on Next/Finish while the current question has no recorded answer
\* leaves currentQuestionIndex unchanged, does not finish the session and emits
\* no QuizAttempt.
C5_NextNeedsAnswer ==
    [][(QuestionScreen /\ currentQuestion.id \notin DOMAIN answers /\ ev'.op = "HandleNext")
          => /\ currentQuestionIndex' = currentQuestionIndex
             /\ isFinished' = isFinished
             /\ attempts' = attempts
             /\ quizzes' = quizzes]_vars

C5_Witness ==
    /\ ev.op = "HandleNext" /\ ev.blocked
    /\ QuestionScreen
    /\ currentQuestion.id \notin DOMAIN answers
    /\ currentQuestionIndex > 0

\* C6: a session has emitted no QuizAttempt while it is in progress and exactly
\* one from the moment it is finished; that attempt has isSubmitted = true and
\* carries the session's answers.
C6_OneAttemptAtFinish ==
    /\ Len(attempts) = (IF isFinished THEN 1 ELSE 0)
    /\ isFinished => attempts[1].isSubmitted /\ attempts[1].answers = answers

C6_Witness ==
    /\ isFinished
    /\ Len(attempts) = 1
    /\ attempts[1].answers # EmptyAnswers
    /\ ev.op = "TimerFires"

\* The strings obtained from s by dropping a run of leading and a run of trailing
\* white space, leaving no white space at either end, and lower-casing the rest.
LowerTrimmed(s) ==
    { ToLowerCase(SubSeq(s, i + 1, j)) :
        <<i, j>> \in { p \in (0..Len(s)) \X (0..Len(s)) :
                         /\ p[1] <= p[2]
                         /\ \A k \in 1..p[1] : s[k] = " "
                         /\ \A k \in (p[2] + 1)..Len(s) : s[k] = " "
                         /\ p[1] < p[2] => s[p[1] + 1] # " " /\ s[p[2]] # " " } }

\* The questions (by position) the scoring rule counts as correct.
CorrectPositions(questions, ans) ==
    { i \in DOMAIN questions :
        /\ questions[i].id \in DOMAIN ans
        /\ LowerTrimmed(ans[questions[i].id]) \cap LowerTrimmed(questions[i].correctAnswer) # {} }

\* C7: the score of the emitted attempt is the number of questions whose recorded
\* answer equals correctAnswer after lower-casing and trimming both; a question
\* without a recorded answer is not counted.
C7_ScoringRule ==
    (Mounted /\ isFinished) =>
        attempts[1].score = Cardinality(CorrectPositions(currentQuiz.questions, answers))

C7_Witness ==
    /\ Mounted /\ isFinished
    /\ \E i, j \in DOMAIN currentQuiz.questions :
          /\ i \in CorrectPositions(currentQuiz.questions, answers)
          /\ answers[currentQuiz.questions[i].id] # currentQuiz.questions[i].correctAnswer
          /\ j \notin CorrectPositions(currentQuiz.questions, answers)

\* C8: the score emitted by finishQuiz equals the score getScore derives on the
\* results screen, and lies between 0 and totalQuestions.
C8_ScoreAgreesWithResults ==
    (Mounted /\ isFinished) =>
        /\ attempts[1].score = GetScore(currentQuiz.questions, answers)
        /\ 0 <= attempts[1].score
        /\ attempts[1].score <= currentQuiz.totalQuestions

C8_Witness ==
    /\ Mounted /\ isFinished
    /\ attempts[1].score = currentQuiz.totalQuestions
    /\ currentQuiz.totalQuestions > 1
    /\ \E i \in DOMAIN currentQuiz.questions :
          answers[currentQuiz.questions[i].id] # currentQuiz.questions[i].correctAnswer

\* C9: on the results screen every question is marked correct by the review
\* exactly when the score counted it.
C9_ReviewAgreesWithScore ==
    (Mounted /\ isFinished) =>
        \A i \in DOMAIN currentQuiz.questions :
            ReviewIsCorrect(currentQuiz.questions[i], answers)
                <=> FinishMatches(currentQuiz.questions[i], answers)

C11_IndexInRange ==
    (appState = "TAKING_QUIZ" /\ currentQuiz # NoQuiz /\ ~isFinished
        /\ Len(currentQuiz.questions) >= 1)
    => (0 <= currentQuestionIndex /\ currentQuestionIndex <= Len(currentQuiz.questions) - 1)

\* C12: handleAnswer, in progress and with showFeedback false, sets the answer
\* of the current question to the given value, keeps every other answer and
\* the index; otherwise it changes nothing.
C12_SubmitAnswerFrame ==
    [][ev'.op = "HandleAnswer" =>
          IF Mounted /\ ~isFinished /\ ~showFeedback
          THEN /\ currentQuestionIndex' = currentQuestionIndex
               /\ DOMAIN answers' = DOMAIN answers \cup {currentQuestion.id}
               /\ answers'[currentQuestion.id] = ev'.answer
               /\ \A k \in DOMAIN answers \ {currentQuestion.id} : answers'[k] = answers[k]
               /\ UNCHANGED <<showFeedback, isFinished>>
          ELSE UNCHANGED viewVars]_vars

\* An answer typed over an earlier one (the text cleared) while another
\* question already has its answer.
C12_Witness ==
    /\ ev.op = "HandleAnswer" /\ Mounted
    /\ currentQuestion.type = SHORT_ANSWER
    /\ ev.answer = <<>> /\ answers[currentQuestion.id] = <<>>
    /\ Cardinality(DOMAIN answers) > 1

\* C13: after handleAnswer on a SHORT_ANSWER question or on the last question
\* the index changes only through handleNext/handlePrevious: no scheduled
\* callback moves the index away from such a question once it is answered.
C13_NoAdvanceOnShortOrLast ==
    [][(/\ ev'.op = "TimerFires"
        /\ QuestionScreen
        /\ currentQuestion.type = SHORT_ANSWER \/ isLastQuestion
        /\ currentQuestion.id \in DOMAIN answers)
       => currentQuestionIndex' = currentQuestionIndex]_vars

\* The part of C13 about scheduling: handleAnswer adds a callback exactly on a
\* MULTIPLE_CHOICE or TRUE_FALSE question that is not the last one.
SchedulingRule ==
    [][ev'.op = "HandleAnswer" =>
          /\ timers' # timers
               <=> (/\ currentQuestion.type \in {MULTIPLE_CHOICE, TRUE_FALSE}
                    /\ currentQuestionIndex # Len(currentQuiz.questions) - 1)
          /\ timers' # timers => timers' = Append(timers, NewTimer(currentQuestionIndex))]_vars

\* C14: handleNext with the current question answered: not on the last
\* question the index grows by one and showFeedback is cleared; on the last
\* one the session becomes finished; answers is unchanged in both cases.
C14_NextAdvancesOrFinishes ==
    [][(ev'.op = "HandleNext" /\ QuestionScreen /\ currentQuestion.id \in DOMAIN answers)
       => /\ answers' = answers
          /\ IF currentQuestionIndex # Len(currentQuiz.questions) - 1
             THEN /\ currentQuestionIndex' = currentQuestionIndex + 1
                  /\ showFeedback' = FALSE
                  /\ isFinished' = isFinished
             ELSE /\ isFinished'
                  /\ currentQuestionIndex' = currentQuestionIndex]_vars

\* C15: handlePrevious at index 0 changes nothing and raises no error; at an
\* index above 0 it lowers the index by one and clears showFeedback; it never
\* changes answers.
C15_PreviousStepsBack ==
    [][ev'.op = "HandlePrevious" =>
          /\ answers' = answers
          /\ UNCHANGED <<isFinished, crashed, attempts>>
          /\ IF currentQuestionIndex = 0
             THEN UNCHANGED <<currentQuestionIndex, showFeedback>>
             ELSE /\ currentQuestionIndex' = currentQuestionIndex - 1
                  /\ showFeedback' = FALSE]_vars

\* Back at the first question after handlePrevious, its answer still there.
C15_Witness ==
    /\ ev.op = "HandlePrevious" /\ ~ev.blocked /\ Mounted
    /\ currentQuestionIndex = 0
    /\ currentQuestion.id \in DOMAIN answers

\* The number of questions of seq with the given id.
IdCount(seq, id) == Cardinality({i \in DOMAIN seq : seq[i].id = id})

\* a has the questions of b, each id as often as in b.
IsPermutationOf(a, b) ==
    /\ Len(a) = Len(b)
    /\ \A i \in DOMAIN a : \E j \in DOMAIN b : a[i] = b[j]
    /\ \A j \in DOMAIN b : IdCount(a, b[j].id) = IdCount(b, b[j].id)

\* C16: startQuiz leaves the library as it is, and the questions of the
\* session it starts are a permutation of the library quiz's questions (the
\* same sequence when not randomized).
C16_ShufflePermutes ==
    [][ev'.op \in {"StartQuiz", "StartQuizRandomized"} =>
          /\ quizzes' = quizzes
          /\ \E i \in DOMAIN quizzes :
                /\ quizzes[i].id = currentQuiz'.id
                /\ IsPermutationOf(currentQuiz'.questions, quizzes[i].questions)
                /\ ev'.op = "StartQuiz" => currentQuiz'.questions = quizzes[i].questions]_vars

\* A randomized session of three or more questions in another order than the
\* stored one, its first question still first.
C16_Witness ==
    /\ ev.op = "StartQuizRandomized" /\ Mounted
    /\ Len(currentQuiz.questions) >= 3
    /\ currentQuiz.questions # quizzes[1].questions
    /\ currentQuiz.questions[1] = quizzes[1].questions[1]

RECURSIVE Factorial(_)
Factorial(n) == IF n <= 1 THEN 1 ELSE n * Factorial(n - 1)

\* All orders of the elements of seq.
PermutationsOf(seq) ==
    { [i \in DOMAIN seq |-> seq[f[i]]] :
        f \in { g \in [DOMAIN seq -> DOMAIN seq] :
                  \A i, j \in DOMAIN seq : g[i] = g[j] => i = j } }

\* C17: for the n distinct questions of a quiz, the shuffle maps the
\* sequences of draws (j in [0, i] for i from n-1 down to 1) one-to-one onto
\* the n! orders of the questions.
C17_ShuffleBijection ==
    \A q \in DOMAIN quizzes :
        LET qs    == quizzes[q].questions
            draws == RandomDraws(Len(qs))
            outs  == {Shuffle(qs, js) : js \in draws}
        IN /\ outs = PermutationsOf(qs)
           /\ Cardinality(outs) = Cardinality(draws)
           /\ Cardinality(draws) = Factorial(Len(qs))

Reverse(seq) == [i \in DOMAIN seq |-> seq[Len(seq) + 1 - i]]

\* A randomized session that runs the stored questions in reverse order.
C17_Witness ==
    /\ ev.op = "StartQuizRandomized" /\ Mounted
    /\ Len(currentQuiz.questions) = MaxQuestions
    /\ currentQuiz.questions = Reverse(quizzes[1].questions)

\* C18: a library quiz keeps the questions it was created with and
\* totalQuestions is the length of questions, whatever is generated, started,
\* completed or deleted; only its score changes.
C18_LibraryQuestionsFixed ==
    [][/\ \A i \in DOMAIN quizzes' :
             quizzes'[i].totalQuestions = Len(quizzes'[i].questions)
       /\ \A i \in DOMAIN quizzes', j \in DOMAIN quizzes :
             quizzes'[i].id = quizzes[j].id =>
                 /\ quizzes'[i].questions = quizzes[j].questions
                 /\ quizzes'[i].totalQuestions = quizzes[j].totalQuestions]_vars

\* An attempt on a randomized copy in another order has just been completed
\* and has given the library quiz its score.
C18_Witness ==
    /\ ev.op = "HandleQuizComplete" /\ Mounted
    /\ \E i \in DOMAIN quizzes :
          /\ quizzes[i].id = currentQuiz.id
          /\ quizzes[i].score # Unset
          /\ quizzes[i].questions # currentQuiz.questions
    /\ Len(quizzes) > 1

\* The dispatch rule as stated: the path of the declared media type if it has
\* one, otherwise the path of the lower-cased name's extension, otherwise
\* unsupported.
PathOfType(f) ==
    IF f.type = PdfType THEN "parsePdf"
    ELSE IF f.type \in {XlsxType, XlsType} THEN "parseExcel"
         ELSE IF StartsWith(f.type, <<"image/">>) THEN "parseImage" ELSE Unsupported

PathOfExtension(f) ==
    LET name == ToLowerCase(f.name)
    IN IF EndsWith(name, DotPdf) THEN "parsePdf"
       ELSE IF EndsWith(name, DotXlsx) \/ EndsWith(name, DotXls) THEN "parseExcel"
            ELSE IF \E ext \in {DotPng, DotJpg, DotJpeg, DotWebp, DotHeic} : EndsWith(name, ext)
                 THEN "parseImage" ELSE Unsupported

StatedPath(f) == IF PathOfType(f) # Unsupported THEN PathOfType(f) ELSE PathOfExtension(f)

\* C19: parseFile takes the path of the media type, else of the extension
\* (case-insensitive), and throws exactly when neither matches, before any
\* read is started.
C19_DispatchRule ==
    \A task \in pending :
        task.stage \in ReadStages \cup {Unsupported} => task.stage = StatedPath(task.file)

\* C20: validateAndSelect passes a file on exactly when parseFile does not
\* reject it as unsupported.
C20_AllowListsAgree ==
    ev.op = "ValidateAndSelect" =>
        (file = ev.offered <=> ParseFilePath(ev.offered) # Unsupported)

\* No page of the document has text: every page's items join to blanks.
NoTextOnAnyPage(content) ==
    \A i \in DOMAIN content.pages : TextLength(TrimText(JoinItems(content.pages[i]))) = 0

\* C21: parsePdf on a document that decodes but has no text on any page fails
\* with the empty-content error, which differs from the corrupt-file error.
C21_EmptyPdfHint ==
    (/\ ev.op = "ParseSettles"
     /\ ev.offered.content.kind = "pdf"
     /\ ev.offered.content.decodes
     /\ NoTextOnAnyPage(ev.offered.content))
        => (error = PdfEmptyMessage /\ PdfEmptyMessage # PdfCorruptMessage)

\* The offered file is a workbook that decodes and whose first sheet's CSV
\* is empty once trimmed.
EmptySheetOffered ==
    /\ ev.op = "ParseSettles"
    /\ ev.offered.content.kind = "sheet"
    /\ ev.offered.content.decodes
    /\ TextLength(TrimText(ev.offered.content.sheets[1].csv)) = 0

\* C22: parseExcel on a valid workbook whose first sheet is empty after trim
\* rejects with the empty-content error, not the parse error, and settles
\* once: it makes one call, a reject, and hands nothing to the generation.
C22_EmptySheetRejectsOnce ==
    EmptySheetOffered =>
        /\ error = ExcelEmptyMessage
        /\ error # ExcelCorruptMessage
        /\ Len(ParseExcelCalls(ev.offered.content)) = 1
        /\ ~isProcessing
        /\ pending = {}

C22_Witness ==
    /\ EmptySheetOffered
    /\ ev.offered.content.sheets[1].csv # <<>>
    /\ error = ExcelEmptyMessage

\* The text p is the beginning of the text t, character by character.
RECURSIVE IsPrefixText(_, _)
IsPrefixText(p, t) ==
    IF p = <<>> THEN TRUE
    ELSE IF t = <<>> \/ Head(p).ch # Head(t).ch THEN FALSE
    ELSE IF Head(p).n = Head(t).n THEN IsPrefixText(Tail(p), Tail(t))
    ELSE IF Head(p).n < Head(t).n
         THEN IsPrefixText(Tail(p), <<Run(Head(t).ch, Head(t).n - Head(p).n)>> \o Tail(t))
         ELSE IsPrefixText(<<Run(Head(p).ch, Head(p).n - Head(t).n)>> \o Tail(p), Tail(t))

\* The generation calls in flight that were given a text.
TextCalls ==
    {task \in pending : task.stage = "generateQuizFromContent" /\ task.content.type = "text"}

\* C25: the text handed to the generation service is the first
\* min(length, 100000) characters of the extracted text, handed over without
\* an error, and the extracted text itself keeps its full length.
C25_TruncatesAtLimit ==
    \A task \in TextCalls :
        LET extracted == task.content.content
            length == TextLength(extracted)
        IN /\ IsPrefixText(task.handed.text, extracted)
           /\ TextLength(task.handed.text) = IF length < 100000 THEN length ELSE 100000
           /\ error = NoError
           /\ task.file.content.kind = "sheet" =>
                  length = TextLength(SheetMarker(task.file.content.sheets[1].name))
                           + TextLength(task.file.content.sheets[1].csv)

C25_Witness ==
    \E task \in TextCalls :
        /\ TextLength(task.content.content) = 100001
        /\ TextLength(task.handed.text) = 100000

\* C23: handleGenerate has at most one extraction or generation call in
\* flight, whatever the order of clicks and completions, and a call that ends
\* surfaces one outcome: one new quiz and no error, or an error and no quiz.
C23_OneCallOneOutcome ==
    [][/\ Cardinality(pending) <= 1
       /\ Cardinality(pending') <= 1
       /\ (pending # {} /\ pending' = {}) =>
              \/ /\ Len(quizzes') = Len(quizzes) + 1
                 /\ SubSeq(quizzes', 2, Len(quizzes')) = quizzes
                 /\ error' = NoError
              \/ /\ quizzes' = quizzes
                 /\ error' # NoError]_vars

C23_Witness ==
    /\ pending # {}
    /\ isProcessing
    /\ file # NoFile
    /\ OnDashboard
    /\ quizzes # <<>>
    /\ error = NoError

\* C24: a failed extraction or generation ends handleGenerate with an error
\* message, the library, the screen and the current quiz as they were, and no
\* further call started; after either outcome the processing flag is false.
C24_FailFast ==
    [][(pending # {} /\ pending' # pending) =>
          /\ pending' = {} => ~isProcessing'
          /\ (pending' = {} /\ error' # NoError) =>
                 /\ quizzes' = quizzes
                 /\ appState' = appState
                 /\ currentQuiz' = currentQuiz
                 /\ file' = file]_vars

C24_Witness ==
    /\ error # NoError
    /\ pending = {}
    /\ ~isProcessing
    /\ file # NoFile
    /\ OnDashboard
    /\ quizzes # <<>>

\* C26: once App is up, the stored item is the serialized library and
\* deserializes to it, after the startup and after every change of the
\* library; a stored library is the library after startup and is stored
\* again; a stored text that does not parse gives the empty library and no
\* failure.
C26_StoredIsLibrary ==
    /\ (startup = Ready /\ ~crashed) =>
           /\ storage = Stringify(quizzes)
           /\ Parse(storage) = quizzes
    /\ (ev.op = "Rerender" /\ IsArray(ev.offered)) =>
           /\ ~crashed
           /\ quizzes = Parse(ev.offered)
           /\ storage = ev.offered
    /\ (ev.op = "MountEffects" /\ ParseThrows(ev.offered)) =>
           /\ ~crashed
           /\ startup = Ready
           /\ quizzes = <<>>

C26_Witness ==
    /\ ev.op = "HandleQuizComplete"
    /\ Len(quizzes) = 2
    /\ \A i \in DOMAIN quizzes : quizzes[i].score # Unset
    /\ storage = Stringify(quizzes)

\* String.prototype.toUpperCase on one character: the sharp s has no single
\* upper-case character and becomes two.
UpperChars(c) ==
    CASE c = "a" -> <<"A">>
      [] c = "b" -> <<"B">>
      [] c = "e" -> <<"E">>
      [] c = "r" -> <<"R">>
      [] c = "s" -> <<"S">>
      [] c = "t" -> <<"T">>
      [] c = "ß" -> <<"S", "S">>
      [] OTHER   -> <<c>>

RECURSIVE ToUpperCase(_)
ToUpperCase(s) == IF s = <<>> THEN <<>> ELSE UpperChars(Head(s)) \o ToUpperCase(Tail(s))

Padded(s) == <<" ", " ">> \o s \o <<" ", " ">>

\* The judgement finishQuiz makes of the answer a to the question q.
IsCorrect(q, a) == FinishMatches(q, [k \in {q.id} |-> a])

\* C27: the judgement of an answer is the judgement of its upper-cased form
\* and of the answer with spaces added before and after it.
C27_CaseAndPaddingInvariant ==
    (Mounted /\ isFinished) =>
        LET q == currentQuiz.questions[1]
            a == answers[q.id]
        IN /\ (attempts[1].score = 1) = IsCorrect(q, a)
           /\ IsCorrect(q, a) = IsCorrect(q, Padded(a))
           /\ IsCorrect(q, a) = IsCorrect(q, ToUpperCase(a))

\* An auto-advance scheduled on the question at index i has not run yet.
AdvancePending(i) == \E k \in DOMAIN timers : timers[k].idx = i /\ ~timers[k].dead

\* C28: without manual navigation, the auto-advances scheduled on a question
\* move the index from it to the next question, in the end and once: a
\* callback moves the index by one from the index it was scheduled on and
\* leaves any other index alone, and the index never comes back.
C28_AdvancesOnce ==
    /\ [][/\ currentQuestionIndex' >= currentQuestionIndex
          /\ ev'.op = "TimerFires" =>
                 currentQuestionIndex' = IF currentQuestionIndex = ev'.t.idx
                                         THEN ev'.t.idx + 1
                                         ELSE currentQuestionIndex]_vars
    /\ \A i \in 0..(MaxQuestions - 1) :
           (currentQuestionIndex = i /\ AdvancePending(i)) ~> (currentQuestionIndex = i + 1)
    /\ \A i \in 0..(MaxQuestions - 1) :
           (currentQuestionIndex = i + 1 /\ AdvancePending(i))
               ~> (currentQuestionIndex = i + 1 /\ ~AdvancePending(i))

C28_Witness ==
    /\ ev.op = "TimerFires"
    /\ ev.t.idx = 0
    /\ currentQuestionIndex = 1
    /\ AdvancePending(0)

\* C29: in a session every question before the current one has a non-empty
\* recorded answer, and on the results screen every question has one.
C29_AnsweredBeforeIndex ==
    Mounted =>
        /\ \A i \in DOMAIN currentQuiz.questions :
               i <= currentQuestionIndex => Truthy(answers, currentQuiz.questions[i].id)
        /\ isFinished =>
               \A i \in DOMAIN currentQuiz.questions :
                   Truthy(answers, currentQuiz.questions[i].id)

\* C30: in a session every key of answers is the id of a question of the
\* quiz the session is on (answers maps an id to one answer, so a question
\* has at most one entry).
C30_AnswerKeysAreQuestionIds ==
    Mounted =>
        DOMAIN answers \subseteq {currentQuiz.questions[i].id : i \in DOMAIN currentQuiz.questions}

C30_Witness ==
    /\ Mounted
    /\ DOMAIN answers # {}
    /\ \E k \in DOMAIN timers : timers[k].prior
    /\ Len(currentQuiz.questions) = 1

\* The positions of the library quizzes with the id.
WithId(id) == {i \in DOMAIN quizzes : quizzes[i].id = id}

\* C31: no two quizzes of the library have the same id, whatever values the
\* clock gave to the generations, so the id of the quiz of a completed attempt
\* is the id of one library quiz.
C31_UniqueQuizIds ==
    ~crashed =>
        /\ \A i \in DOMAIN quizzes : WithId(quizzes[i].id) = {i}
        /\ ev.op = "HandleQuizComplete" => Cardinality(WithId(currentQuiz.id)) = 1

====
